---- MODULE Spec2Model ----
(***************************************************************************)
(* Verification model of the AITelehealth session pipeline.                *)
(*                                                                         *)
(*   StoreSpec     SessionProvider (src/contexts/SessionContext.tsx) with  *)
(*                 its callers VisitManager, CallWithSTT and OvershootDemo *)
(*   CorrelationSpec  the producers of confusion events and the auto-link  *)
(*                 of addConfusionEvent                                    *)
(*   DebounceSpec  the recognizer callback of PrescriptionSTT              *)
(*   ServerSpec    POST /post-visit-safety-check and GET /visit-summary    *)
(*   LifecycleSpec the start effect of VisitManager and its latch          *)
(*   VisitSpec     one visit from connect to the stored visit record       *)
(*   MessageSpec   generateClinicianNote and generatePatientFollowUp       *)
(*   TriggerSpec   the Panel Trigger of SessionDebugPanel                  *)
(*   FinalizeSpec  triggerPostVisitSafetyCheck settling either way         *)
(*   LinkSpec      linkConfusionToDrug against appends and renders         *)
(*   AttachSpec    the logs while a session is active                      *)
(*   LogSpec       the logs across startVisit and endVisit                 *)
(*   InCallSpec    the interaction check of CallWithSTT                    *)
(*   MonitorSpec   the comprehension monitor of OvershootDemo              *)
(*                                                                         *)
(* React state is modelled by two copies.  `pending` is the state React    *)
(* holds once every queued updater has been applied; `rendered` is the     *)
(* state of the last render, which is what the closures created by that    *)
(* render (useCallback) read.  Render copies pending to rendered.          *)
(* Times are milliseconds, as returned by Date.now().                      *)
(***************************************************************************)
EXTENDS Integers, Sequences, FiniteSets, TLC

\* ------------------------------------------------------------------ bounds
MaxTime == 11000
MaxStarts == 2
MaxEnds == 2
MaxDetections == 2
MaxConfusions == 1

MaxSttTime == 17000
MaxResults == 3
MaxRequests == 2
MaxSignals == 3
MaxInteractions == 4
MaxPanelTime == 21000
MaxQueued == 2
MaxLinks == 2
MaxMonitorTicks == 4

\* ------------------------------------------------------- program constants
AUTO_LINK_WINDOW_MS == 10000
DEBOUNCE_MS == 8000
PANEL_WINDOW_SECONDS == 60

\* --------------------------------------------------------- value universes
NoSession == 0
NoTime == 0
NoRole == "null"
NoIdentity == "undefined"
NoDrug == "undefined"
NoSnapshot == [sessionId |-> NoSession]
NotRegistered == [registered |-> FALSE]

Roles == {"doctor", "patient"}
SessionDrugs == {"Ibuprofen", "Naproxen"}
ConfusionStates == {"CONFUSION", "UNDERSTANDING"}
Confidences == {"LOW", "MEDIUM", "HIGH"}
TickSteps == {5000}
PanelTickSteps == {10000}

VARIABLES
  now,            \* Date.now()
  pending,        \* SessionProvider state with every queued update applied
  rendered,       \* SessionProvider state of the last render (closure view)
  startedRef,     \* VisitManager.startedRef.current
  managerStarts,  \* history: startVisit calls made by VisitManager since it mounted
  demoMentions,   \* drugMentions seen by the session object the demo interval captured
  nextConfusion,  \* source of fresh confusion-event ids
  nextSession,    \* source of fresh session ids
  opened,         \* history: lengths of the logs when the active session was started
  lastSnapshot,   \* the value returned by the last endVisit call
  finalized,      \* history: sessionIds of the non-null endVisit results
  checks,         \* sessionIds of the safety-check requests issued
  outbox,         \* bodies of the safety-check requests sent and not yet received
  addLog,         \* history: per confusion-event id, the addConfusionEvent call that made it
  mentionLog      \* history: every drug mention ever appended

storeVars == <<now, pending, rendered, startedRef, managerStarts, demoMentions, nextConfusion,
               nextSession, opened, lastSnapshot, finalized, checks, outbox, addLog, mentionLog>>

VARIABLES
  lastDrugRef,    \* PrescriptionSTT.lastDrugRef.current (<<>> for null)
  debounceTimer,  \* deadline of the live timer behind debounceRef.current (0: none)
  renderDue,      \* the provider state changed since PrescriptionSTT last rendered
  detections      \* history: every drug the recognizer callback processed

sttVars == <<lastDrugRef, debounceTimer, renderDue, detections>>

VARIABLES
  storedPdf,      \* server.js storedPdf.drugs
  visitSessions,  \* server.js visitSessions: sessionId -> visitData
  inflight,       \* safety-check handlers suspended at an await
  requestCount,   \* safety-check requests received so far
  lastResponse,   \* history: the last answer of POST /post-visit-safety-check
  succeeded,      \* history: sessionIds answered with success: true
  lastGet,        \* history: the last answer of GET /visit-summary/:sessionId
  generated       \* the last SafetyCheck given to messageGenerator, with its two texts

serverVars == <<storedPdf, visitSessions, inflight, requestCount, lastResponse,
                succeeded, lastGet, generated>>

VARIABLES
  roomState,      \* room.state of the LiveKit room
  roleContext,    \* the value of RoleContext (useRole starts at null)
  listener,       \* the handleConnected registered by room.on('connected', ...)
  signals         \* history: 'connected' events the room has emitted

managerVars == <<roomState, roleContext, listener, signals>>

VARIABLES
  errorLog,       \* console.error calls of triggerPostVisitSafetyCheck, by sessionId
  redirects       \* the page changes triggerPostVisitSafetyCheck has scheduled

settleVars == <<errorLog, redirects>>

VARIABLES
  linkLog         \* history: the linkConfusionToDrug calls made, in order

VARIABLES
  isChecking,     \* CallWithSTT state isChecking
  result,         \* CallWithSTT state result, with the detection it answers
  drugChecks      \* the onPrescriptionDetected calls suspended at an await

checkVars == <<isChecking, result, drugChecks>>

VARIABLES
  isAnalyzingRef, \* OvershootDemo.isAnalyzingRef.current
  analyses,       \* the analyzeComprehension calls suspended at an await
  monitorLog      \* history: what each timer tick and each settled request did

monitorVars == <<isAnalyzingRef, analyses, monitorLog>>

pageVars == <<settleVars, linkLog, checkVars, monitorVars>>

outsideStore == <<sttVars, serverVars, managerVars, pageVars>>
outsideStt == <<pending, rendered, startedRef, managerStarts, demoMentions, nextConfusion, nextSession,
                opened, lastSnapshot, finalized, checks, outbox, addLog, mentionLog, serverVars,
                managerVars, pageVars>>
outsideServer == <<storeVars, sttVars, managerVars, pageVars>>

vars == <<storeVars, sttVars, serverVars, managerVars, pageVars>>

\* ------------------------------------------------------------ SessionStore
EmptyStore ==
  [sessionId |-> NoSession, visitStartTime |-> NoTime, role |-> NoRole,
   participantIdentity |-> NoIdentity,
   confusionEvents |-> <<>>, drugMentions |-> <<>>, prescriptions |-> <<>>]

NoOpen == [active |-> FALSE]
NoCall == [called |-> FALSE]

\* LiveKit identities are issued per role by createToken: `${role}-<n>`
IdentityOf(r) == IF r = "doctor" THEN "doctor-1" ELSE "patient-1"

\* mutant: the window test written with <= instead of <
RecentDrugs_Inclusive(mentions, t) ==
  SelectSeq(mentions, LAMBDA dm : t - dm.timestamp <= AUTO_LINK_WINDOW_MS)

\* drugMentions.filter(dm => Date.now() - dm.timestamp < 10000)
RecentDrugs(mentions, t) ==
  SelectSeq(mentions, LAMBDA dm : t - dm.timestamp < AUTO_LINK_WINDOW_MS)

\* mutant: the link is made whatever the state of the event
StoredEvent_AnyState(ev, id, t, mentions) ==
  LET newEvent == [id |-> id, timestamp |-> t, state |-> ev.state,
                   confidence |-> ev.confidence, drugContext |-> ev.drugContext]
      recentDrugs == RecentDrugs(mentions, t)
  IN IF Len(recentDrugs) > 0
       THEN [newEvent EXCEPT !.drugContext = recentDrugs[Len(recentDrugs)].drug]
       ELSE newEvent

\* The event addConfusionEvent leaves in the log: the new event, replaced by
\* the linked copy when the closure's mention list has a recent entry.
StoredEvent(ev, id, t, mentions) ==
  LET newEvent == [id |-> id, timestamp |-> t, state |-> ev.state,
                   confidence |-> ev.confidence, drugContext |-> ev.drugContext]
      recentDrugs == RecentDrugs(mentions, t)
  IN IF Len(recentDrugs) > 0 /\ ev.state = "CONFUSION"
       THEN [newEvent EXCEPT !.drugContext = recentDrugs[Len(recentDrugs)].drug]
       ELSE newEvent

\* endVisit evaluated in the closure of a render whose state is s
EndVisitResult(s, t) ==
  IF s.sessionId = NoSession \/ s.visitStartTime = NoTime \/ s.role = NoRole
    THEN NoSnapshot
    ELSE [sessionId |-> s.sessionId, startTime |-> s.visitStartTime, endTime |-> t,
          role |-> s.role, participantIdentity |-> s.participantIdentity,
          prescriptions |-> s.prescriptions,
          confusionEvents |-> s.confusionEvents,
          drugMentions |-> s.drugMentions]

\* startVisit(id, visitRole, identity): four unconditional setters
StartVisitUpdate(id, r, ident) ==
  /\ pending' = [pending EXCEPT !.sessionId = id, !.visitStartTime = now,
                                !.role = r, !.participantIdentity = ident]
  /\ opened' = IF pending.sessionId = NoSession
                 THEN [active |-> TRUE,
                       confusionMark |-> Len(pending.confusionEvents),
                       mentionMark |-> Len(pending.drugMentions),
                       prescriptionMark |-> Len(pending.prescriptions)]
                 ELSE opened
  /\ nextSession' = IF id = nextSession THEN nextSession + 1 ELSE nextSession

\* a direct call of session.startVisit
StartVisit ==
  /\ nextSession <= MaxStarts
  /\ \E id \in {nextSession} \cup ({pending.sessionId} \ {NoSession}),
        r \in Roles :
       StartVisitUpdate(id, r, IdentityOf(r))
  /\ UNCHANGED outsideStore
  /\ UNCHANGED <<now, rendered, startedRef, managerStarts, demoMentions, nextConfusion,
                 lastSnapshot, finalized, checks, outbox, addLog, mentionLog>>

\* mutant: handleConnected without the startedRef latch
HandleConnected_NoLatch(r) ==
  /\ startedRef' = startedRef
  /\ managerStarts' = managerStarts + 1
  /\ StartVisitUpdate(nextSession, r, IdentityOf(r))

\* VisitManager.handleConnected of an effect run whose render saw role r
HandleConnected(r) ==
  IF startedRef
    THEN UNCHANGED <<startedRef, managerStarts, pending, opened, nextSession>>
    ELSE /\ startedRef' = TRUE
         /\ managerStarts' = managerStarts + 1
         /\ StartVisitUpdate(nextSession, r, IdentityOf(r))

\* VisitManager.handleConnected behind the startedRef latch
Connected ==
  /\ ~startedRef
  /\ nextSession <= MaxStarts
  /\ \E r \in Roles : HandleConnected(r)
  /\ UNCHANGED outsideStore
  /\ UNCHANGED <<now, rendered, demoMentions, nextConfusion,
                 lastSnapshot, finalized, checks, outbox, addLog, mentionLog>>

\* The entries appended to the true logs since the active session was started
AppendedSinceStart ==
  IF ~opened.active
    THEN [confusionEvents |-> <<>>, drugMentions |-> <<>>, prescriptions |-> <<>>]
    ELSE [confusionEvents |->
            SubSeq(pending.confusionEvents, opened.confusionMark + 1,
                   Len(pending.confusionEvents)),
          drugMentions |->
            SubSeq(pending.drugMentions, opened.mentionMark + 1,
                   Len(pending.drugMentions)),
          prescriptions |->
            SubSeq(pending.prescriptions, opened.prescriptionMark + 1,
                   Len(pending.prescriptions))]

\* `visit-${Date.now()}-${random}`: the n-th id VisitManager makes up
VisitKey(n) == <<"visit-1", "visit-2", "visit-3", "visit-4">>[n]

\* mutant: the request is sent without the prescriptions of the visit
SafetyCheckRequest_NoPrescriptions(visitData) ==
  [sessionId |-> VisitKey(visitData.sessionId),
   prescriptions |-> [isArray |-> TRUE, items |-> <<>>],
   patientHistory |-> <<>>,
   role |-> visitData.role]

\* The body triggerPostVisitSafetyCheck sends; dosage and duration are never
\* set by onPrescriptionDetected, visitData has no patientHistory (|| []).
SafetyCheckRequest(visitData) ==
  [sessionId |-> VisitKey(visitData.sessionId),
   prescriptions |-> [isArray |-> TRUE,
                      items |-> [i \in DOMAIN visitData.prescriptions |->
                                   [drug |-> visitData.prescriptions[i].drug]]],
   patientHistory |-> <<>>,
   role |-> visitData.role]

\* VisitManager.handleDisconnected: session.endVisit() as the last render
\* built it (reads rendered, queues the resets), then the safety check
Disconnected ==
  LET visitData == EndVisitResult(rendered, now)
  IN /\ Len(finalized) < MaxEnds
     /\ lastSnapshot' = [called |-> TRUE, visitData |-> visitData]
     /\ IF visitData = NoSnapshot
          THEN UNCHANGED <<pending, opened, finalized, checks, outbox>>
          ELSE /\ pending' = EmptyStore
               /\ opened' = NoOpen
               /\ finalized' = Append(finalized, visitData.sessionId)
               /\ checks' = Append(checks, visitData.sessionId)
               /\ outbox' = Append(outbox, SafetyCheckRequest(visitData))
     /\ UNCHANGED outsideStore
     /\ UNCHANGED <<now, rendered, startedRef, managerStarts, demoMentions, nextConfusion,
                    nextSession, addLog, mentionLog>>

\* mutant: the prescription is recorded for the doctor's detections only
PrescriptionDetected_DoctorOnly(drugs) ==
  /\ Len(mentionLog) < MaxDetections
  /\ \E drug \in drugs :
       LET mention == [drug |-> drug, timestamp |-> now]
           prescription == [drug |-> drug, timestamp |-> now]
       IN /\ pending' = [pending EXCEPT !.drugMentions = Append(@, mention),
                                        !.prescriptions =
                                           IF pending.role = "doctor"
                                             THEN Append(@, prescription) ELSE @]
          /\ mentionLog' = Append(mentionLog, mention)
  /\ UNCHANGED outsideStore
  /\ UNCHANGED <<now, rendered, startedRef, managerStarts, demoMentions, nextConfusion,
                 nextSession, opened, lastSnapshot, finalized, checks, outbox, addLog>>

\* CallWithSTT.onPrescriptionDetected(drug): addDrugMention, then addPrescription
PrescriptionDetected(drugs) ==
  /\ Len(mentionLog) < MaxDetections
  /\ \E drug \in drugs :
       LET mention == [drug |-> drug, timestamp |-> now]
           prescription == [drug |-> drug, timestamp |-> now]
       IN /\ pending' = [pending EXCEPT !.drugMentions = Append(@, mention),
                                        !.prescriptions = Append(@, prescription)]
          /\ mentionLog' = Append(mentionLog, mention)
  /\ UNCHANGED outsideStore
  /\ UNCHANGED <<now, rendered, startedRef, managerStarts, demoMentions, nextConfusion,
                 nextSession, opened, lastSnapshot, finalized, checks, outbox, addLog>>

\* the drugs the recognizer reports in the store scenarios
OnPrescriptionDetected == PrescriptionDetected(SessionDrugs)

\* addConfusionEvent(event) of a session object whose closure saw `mentions`,
\* for up to `limit` events: what the call changes
ConfusionAppended(limit, ev, mentions) ==
  LET stored == StoredEvent(ev, nextConfusion, now, mentions)
  IN /\ nextConfusion <= limit
     /\ pending' = [pending EXCEPT !.confusionEvents = Append(@, stored)]
     /\ addLog' = Append(addLog,
                         [given |-> ev.drugContext,
                          state |-> ev.state,
                          sawRecent |-> Len(RecentDrugs(mentions, now)) > 0,
                          sawOld |-> \E i \in DOMAIN mentions :
                                       now - mentions[i].timestamp >= AUTO_LINK_WINDOW_MS])
     /\ nextConfusion' = nextConfusion + 1

\* addConfusionEvent(event) called on its own
AddConfusionBounded(limit, ev, mentions) ==
  /\ ConfusionAppended(limit, ev, mentions)
  /\ UNCHANGED outsideStore
  /\ UNCHANGED <<now, rendered, startedRef, managerStarts, demoMentions, nextSession,
                 opened, lastSnapshot, finalized, checks, outbox, mentionLog>>

AddConfusionUpdate(ev, mentions) == AddConfusionBounded(MaxConfusions, ev, mentions)

\* a caller that holds the session object of the last render
AddConfusionCurrent ==
  \E st \in ConfusionStates, conf \in {"LOW", "HIGH"}, ctx \in {NoDrug, "Naproxen"} :
    AddConfusionUpdate([state |-> st, confidence |-> conf, drugContext |-> ctx],
                       rendered.drugMentions)

\* RealtimeVision.onResult, created once by the mount effect (deps []):
\* CONFUSION with a confidence from the intensity score, UNDERSTANDING with LOW
AddConfusionVision ==
  \E ev \in {[state |-> "CONFUSION", confidence |-> c, drugContext |-> NoDrug] :
               c \in Confidences}
            \cup {[state |-> "UNDERSTANDING", confidence |-> "LOW", drugContext |-> NoDrug]} :
    AddConfusionUpdate(ev, EmptyStore.drugMentions)

\* the demo-mode interval created by startDemoMode (demoStates: intensity 5, 6 or none)
AddConfusionDemo ==
  /\ demoMentions.registered
  /\ \E ev \in {[state |-> "CONFUSION", confidence |-> "MEDIUM", drugContext |-> NoDrug],
                [state |-> "UNDERSTANDING", confidence |-> "LOW", drugContext |-> NoDrug]} :
       AddConfusionUpdate(ev, demoMentions.drugMentions)

\* mutant: the map is taken over the confusionEvents of the caller's render
LinkedEvents_FromRender(confusionId, drug) ==
  [i \in DOMAIN rendered.confusionEvents |->
     IF rendered.confusionEvents[i].id = confusionId
       THEN [rendered.confusionEvents[i] EXCEPT !.drugContext = drug]
       ELSE rendered.confusionEvents[i]]

\* prev.map(e => e.id === confusionId ? { ...e, drugContext: drug } : e), the
\* updater React applies to the state with every earlier update applied
LinkedEvents(confusionId, drug) ==
  [i \in DOMAIN pending.confusionEvents |->
     IF pending.confusionEvents[i].id = confusionId
       THEN [pending.confusionEvents[i] EXCEPT !.drugContext = drug]
       ELSE pending.confusionEvents[i]]

\* linkConfusionToDrug(confusionId, drug) from a consumer of the context; the
\* id is one of an event in the log or one no event has
LinkConfusionToDrug ==
  /\ Len(linkLog) < MaxLinks
  /\ \E confusionId \in 1..nextConfusion, drug \in SessionDrugs :
       /\ pending' = [pending EXCEPT !.confusionEvents = LinkedEvents(confusionId, drug)]
       /\ linkLog' = Append(linkLog, [id |-> confusionId, drug |-> drug,
                                      known |-> confusionId < nextConfusion])
  /\ UNCHANGED <<now, rendered, startedRef, managerStarts, demoMentions, nextConfusion,
                 nextSession, opened, lastSnapshot, finalized, checks, outbox, addLog,
                 mentionLog>>
  /\ UNCHANGED <<sttVars, serverVars, managerVars, settleVars, checkVars, monitorVars>>

\* addConfusionEvent from a caller that holds the session object of the last
\* render, while links are being attached
AddConfusionQueued ==
  \E st \in ConfusionStates, ctx \in {NoDrug, "Naproxen"} :
    AddConfusionBounded(MaxQueued,
                        [state |-> st, confidence |-> "HIGH", drugContext |-> ctx],
                        rendered.drugMentions)

\* startDemoMode: the interval callback captures the session of this render
StartDemoMode ==
  /\ demoMentions # [registered |-> TRUE, drugMentions |-> rendered.drugMentions]
  /\ demoMentions' = [registered |-> TRUE, drugMentions |-> rendered.drugMentions]
  /\ UNCHANGED outsideStore
  /\ UNCHANGED <<now, pending, rendered, startedRef, managerStarts, nextConfusion, nextSession,
                 opened, lastSnapshot, finalized, checks, outbox, addLog, mentionLog>>

\* React re-renders the provider: closures see every queued update
Render ==
  /\ rendered # pending
  /\ rendered' = pending
  /\ UNCHANGED outsideStore
  /\ UNCHANGED <<now, pending, startedRef, managerStarts, demoMentions, nextConfusion, nextSession,
                 opened, lastSnapshot, finalized, checks, outbox, addLog, mentionLog>>

Tick ==
  /\ \E d \in TickSteps : now + d <= MaxTime /\ now' = now + d
  /\ UNCHANGED outsideStore
  /\ UNCHANGED <<pending, rendered, startedRef, managerStarts, demoMentions, nextConfusion,
                 nextSession, opened, lastSnapshot, finalized, checks, outbox, addLog, mentionLog>>

\* ------------------------------------------------------ SessionDebugPanel
\* getRecentConfusionEvents(withinSeconds) called at time t
GetRecentConfusionEvents(events, withinSeconds, t) ==
  SelectSeq(events, LAMBDA e : e.timestamp >= t - withinSeconds * 1000)

\* the "Panel Trigger" expression of a render at time t
PanelTrigger(role, events, t) ==
  LET recentConfusions == GetRecentConfusionEvents(events, PANEL_WINDOW_SECONDS, t)
  IN /\ role = "patient"
     /\ \E i \in DOMAIN recentConfusions :
          LET c == recentConfusions[i]
          IN c.state = "CONFUSION" /\ c.confidence # "LOW" /\ c.drugContext # NoDrug

\* Time passes while the panel is on screen. React applies queued updates
\* within the task that queued them, so no second passes with a render
\* outstanding.
PanelTick ==
  /\ rendered = pending
  /\ \E d \in PanelTickSteps : now + d <= MaxPanelTime /\ now' = now + d
  /\ UNCHANGED outsideStore
  /\ UNCHANGED <<pending, rendered, startedRef, managerStarts, demoMentions, nextConfusion,
                 nextSession, opened, lastSnapshot, finalized, checks, outbox, addLog,
                 mentionLog>>

\* ------------------------------------------- VisitManager: the start effect
\* The start effect of VisitManager runs (mount, the StrictMode re-run, a change
\* of [room, role]): the cleanup of the previous run, then the body.
StartEffect ==
  /\ nextSession <= MaxStarts
  /\ IF roleContext = NoRole \/ startedRef
       THEN /\ listener' = NotRegistered
            /\ UNCHANGED <<startedRef, managerStarts, pending, opened, nextSession>>
       ELSE IF roomState = "connected"
         THEN /\ HandleConnected(roleContext)
              /\ listener' = NotRegistered
         ELSE /\ listener' = [registered |-> TRUE, role |-> roleContext]
              /\ UNCHANGED <<startedRef, managerStarts, pending, opened, nextSession>>
  /\ UNCHANGED <<roomState, roleContext, signals>>
  /\ UNCHANGED <<sttVars, serverVars, pageVars>>
  /\ UNCHANGED <<now, rendered, demoMentions, nextConfusion,
                 lastSnapshot, finalized, checks, outbox, addLog, mentionLog>>

\* useRole's mount effect calls setRole: RoleContext goes from null to a role
RoleResolves ==
  /\ roleContext = NoRole
  /\ \E r \in Roles : roleContext' = r
  /\ UNCHANGED <<roomState, listener, signals>>
  /\ UNCHANGED <<storeVars, sttVars, serverVars, pageVars>>

\* The room emits 'connected' (the first time or again): the registered
\* handleConnected runs.
ConnectedSignal ==
  /\ nextSession <= MaxStarts
  /\ signals < MaxSignals
  /\ signals' = signals + 1
  /\ roomState' = "connected"
  /\ IF listener.registered
       THEN HandleConnected(listener.role)
       ELSE UNCHANGED <<startedRef, managerStarts, pending, opened, nextSession>>
  /\ UNCHANGED <<roleContext, listener>>
  /\ UNCHANGED <<sttVars, serverVars, pageVars>>
  /\ UNCHANGED <<now, rendered, demoMentions, nextConfusion,
                 lastSnapshot, finalized, checks, outbox, addLog, mentionLog>>

\* room.state leaves 'connected' (the link drops, the call is left)
RoomLeavesConnected ==
  /\ roomState = "connected"
  /\ \E st \in {"reconnecting", "disconnected"} : roomState' = st
  /\ UNCHANGED <<roleContext, listener, signals>>
  /\ UNCHANGED <<storeVars, sttVars, serverVars, pageVars>>

\* --------------------------------------------------------- PrescriptionSTT
\* JavaScript strings are sequences of one-character strings.
UpperAlphabet == <<"A", "B", "C", "D", "E", "F", "G", "H", "I", "J", "K", "L", "M",
                   "N", "O", "P", "Q", "R", "S", "T", "U", "V", "W", "X", "Y", "Z">>
LowerAlphabet == <<"a", "b", "c", "d", "e", "f", "g", "h", "i", "j", "k", "l", "m",
                   "n", "o", "p", "q", "r", "s", "t", "u", "v", "w", "x", "y", "z">>

LowerMap ==
  [c \in {UpperAlphabet[i] : i \in DOMAIN UpperAlphabet} |->
     LowerAlphabet[CHOOSE i \in DOMAIN UpperAlphabet : UpperAlphabet[i] = c]]

UpperMap ==
  [c \in {LowerAlphabet[i] : i \in DOMAIN LowerAlphabet} |->
     UpperAlphabet[CHOOSE i \in DOMAIN LowerAlphabet : LowerAlphabet[i] = c]]

LowerChar(c) == IF c \in DOMAIN LowerMap THEN LowerMap[c] ELSE c

UpperChar(c) == IF c \in DOMAIN UpperMap THEN UpperMap[c] ELSE c

\* String.prototype.toLowerCase
ToLowerCase(str) == [i \in DOMAIN str |-> LowerChar(str[i])]

\* String.prototype.includes
Includes(str, sub) ==
  \E k \in 0..(Len(str) - Len(sub)) : SubSeq(str, k + 1, k + Len(sub)) = sub

\* drug.charAt(0).toUpperCase() + drug.slice(1)
Capitalize(str) == <<UpperChar(str[1])>> \o Tail(str)

LISINOPRIL == <<"l", "i", "s", "i", "n", "o", "p", "r", "i", "l">>
IBUPROFEN == <<"i", "b", "u", "p", "r", "o", "f", "e", "n">>
NAPROXEN == <<"n", "a", "p", "r", "o", "x", "e", "n">>
ENALAPRIL == <<"e", "n", "a", "l", "a", "p", "r", "i", "l">>
AMOXICILLIN == <<"a", "m", "o", "x", "i", "c", "i", "l", "l", "i", "n">>

\* the entries of COMMON_DRUGS the model uses, in list order
COMMON_DRUGS == <<LISINOPRIL, IBUPROFEN, NAPROXEN>>

\* extractDrugs(transcript)
ExtractDrugs(transcript) ==
  IF Len(transcript) < 3 THEN <<>>
  ELSE LET lower == ToLowerCase(transcript)
           found == SelectSeq(COMMON_DRUGS, LAMBDA drug : Includes(lower, drug))
       IN [i \in DOMAIN found |-> Capitalize(found[i])]

\* what the recognizer can hear
Transcripts ==
  { NAPROXEN,
    <<"t", "a", "k", "e", " ">> \o Capitalize(NAPROXEN),
    Capitalize(IBUPROFEN),
    Capitalize(IBUPROFEN) \o <<" ", "o", "r", " ">> \o NAPROXEN,
    <<"o", "k">> }

NoKey == <<>>
NoTimer == 0

\* the loop `for (const drug of drugs)` of onResult, run at time t from the
\* refs in st; every drug met is logged with whether onPrescriptionDetected ran
RECURSIVE ProcessDrugs(_, _, _)
ProcessDrugs(drugs, st, t) ==
  IF drugs = <<>> THEN st
  ELSE LET drug == Head(drugs)
           key == ToLowerCase(drug)
       IN IF st.lastDrugRef = key
            THEN ProcessDrugs(Tail(drugs),
                   [st EXCEPT !.detections =
                      Append(@, [key |-> key, drug |-> drug, at |-> t, fired |-> FALSE])],
                   t)
            ELSE ProcessDrugs(Tail(drugs),
                   [lastDrugRef |-> key,
                    debounceTimer |-> t + DEBOUNCE_MS,
                    detections |->
                      Append(st.detections,
                             [key |-> key, drug |-> drug, at |-> t, fired |-> TRUE])],
                   t)

TimerDue == debounceTimer # NoTimer /\ now >= debounceTimer

\* recognizer onresult -> onResult(e): addToScript, extractDrugs, debounce loop.
\* A timer whose deadline has passed runs before a later recognition result.
OnResult ==
  /\ ~TimerDue
  /\ Len(detections) < MaxResults
  /\ \E transcript \in Transcripts :
       LET st == ProcessDrugs(ExtractDrugs(transcript),
                              [lastDrugRef |-> lastDrugRef,
                               debounceTimer |-> debounceTimer,
                               detections |-> detections],
                              now)
       IN /\ lastDrugRef' = st.lastDrugRef
          /\ debounceTimer' = st.debounceTimer
          /\ detections' = st.detections
  /\ renderDue' = TRUE
  /\ UNCHANGED now
  /\ UNCHANGED outsideStt

\* the setTimeout callback: lastDrugRef.current = null
DebounceTimeout ==
  /\ TimerDue
  /\ lastDrugRef' = NoKey
  /\ debounceTimer' = NoTimer
  /\ UNCHANGED <<now, renderDue, detections>>
  /\ UNCHANGED outsideStt

\* The provider re-rendered (addToScript changed its state): `session` and so
\* onResult are new, and the cleanup of the recognizer effect runs
\* clearTimeout(debounceRef.current); lastDrugRef is left as it is.
RecognizerEffectCleanup ==
  /\ renderDue
  /\ renderDue' = FALSE
  /\ debounceTimer' = NoTimer
  /\ UNCHANGED <<now, lastDrugRef, detections>>
  /\ UNCHANGED outsideStt

SttTick ==
  /\ \E d \in {3000, 5000} :
       /\ now + d <= MaxSttTime
       /\ debounceTimer # NoTimer => now + d <= debounceTimer
       /\ now' = now + d
  /\ UNCHANGED <<lastDrugRef, debounceTimer, renderDue, detections>>
  /\ UNCHANGED outsideStt

\* ------------------------------------------------------------------ server.js
SessionIds == {"visit-1", "visit-2"}
NoSessionId == ""
NoRoleField == ""
Absent == [found |-> FALSE]
NoResponse == [req |-> 0, status |-> 0, lookups |-> <<>>]
NoGet == [status |-> 0]

\* outcomes of `await checkInteractionsRxNav(...)`, decided by the RxNav service
LookupOutcomes == {"conflict", "none", "throws"}
ConflictDetails == "Possible interaction(s)"

Rx(name) == [drug |-> Capitalize(name)]
NoDrugField == [dosage |-> "10mg"]

\* request bodies: `prescriptions` is an array, or some other JSON value
PrescriptionLists ==
  { <<>>,
    <<Rx(LISINOPRIL)>>,
    <<Rx(NAPROXEN), Rx(AMOXICILLIN)>>,
    <<Rx(IBUPROFEN), Rx(ENALAPRIL)>>,
    <<Rx(ENALAPRIL), Rx(LISINOPRIL), Rx(NAPROXEN)>>,
    <<Rx(LISINOPRIL), NoDrugField>> }

RequestBodies ==
  {[sessionId |-> "visit-1", prescriptions |-> [isArray |-> TRUE, items |-> items],
    patientHistory |-> <<>>, role |-> "doctor"] : items \in PrescriptionLists}
  \cup
  {[sessionId |-> NoSessionId, prescriptions |-> [isArray |-> TRUE, items |-> items],
    patientHistory |-> <<>>, role |-> "doctor"] : items \in {<<>>, <<Rx(LISINOPRIL)>>}}
  \cup
  {[sessionId |-> "visit-2", prescriptions |-> [isArray |-> TRUE, items |-> items],
    patientHistory |-> <<"Lisinopril">>, role |-> NoRoleField] :
      items \in {<<Rx(NAPROXEN)>>, <<NoDrugField>>}}
  \cup
  {[sessionId |-> id, prescriptions |-> [isArray |-> FALSE],
    patientHistory |-> <<>>, role |-> NoRoleField] : id \in SessionIds}

PdfDrugLists == {<<"Warfarin">>}

Rejected_ArrayOnly(body) == ~body.prescriptions.isArray

\* !sessionId || !prescriptions || !Array.isArray(prescriptions)
Rejected(body) == body.sessionId = NoSessionId \/ ~body.prescriptions.isArray

\* the predicate of prescriptions.filter(...) for aceInhibitors, on p.drug
MatchesAceInhibitor(drug) ==
  LET name == ToLowerCase(drug)
  IN \/ Includes(name, LISINOPRIL)
     \/ Includes(name, <<"a", "c", "e">>)
     \/ Includes(name, <<"p", "r", "i", "l">>)

\* the predicate of prescriptions.filter(...) for nsaids, on p.drug
MatchesNsaid(drug) ==
  LET name == ToLowerCase(drug)
  IN \/ Includes(name, NAPROXEN)
     \/ Includes(name, IBUPROFEN)
     \/ Includes(name, <<"n", "s", "a", "i", "d">>)

\* both predicates tabulated over the drug names the requests carry
PrescribedNames ==
  UNION {{items[i].drug : i \in {j \in DOMAIN items : "drug" \in DOMAIN items[j]}} :
           items \in PrescriptionLists}
AceInhibitorNames == {drug \in PrescribedNames : MatchesAceInhibitor(drug)}
NsaidNames == {drug \in PrescribedNames : MatchesNsaid(drug)}

IsAceInhibitor(p) == p.drug \in AceInhibitorNames
IsNsaid(p) == p.drug \in NsaidNames

\* p.drug.toLowerCase() of an entry without a drug is a TypeError
FilterThrows(prescriptions) ==
  \E i \in DOMAIN prescriptions : "drug" \notin DOMAIN prescriptions[i]

RenalRisk_LastPair(prescriptions) ==
  LET aceInhibitors == SelectSeq(prescriptions, IsAceInhibitor)
      nsaids == SelectSeq(prescriptions, IsNsaid)
  IN IF Len(aceInhibitors) > 0 /\ Len(nsaids) > 0
       THEN <<[type |-> "renal_risk", severity |-> "moderate",
               drugs |-> <<aceInhibitors[Len(aceInhibitors)].drug,
                           nsaids[Len(nsaids)].drug>>]>>
       ELSE <<>>

\* the rule pass: safetyCheck.risks
RenalRisk(prescriptions) ==
  LET aceInhibitors == SelectSeq(prescriptions, IsAceInhibitor)
      nsaids == SelectSeq(prescriptions, IsNsaid)
  IN IF Len(aceInhibitors) > 0 /\ Len(nsaids) > 0
       THEN <<[type |-> "renal_risk", severity |-> "moderate",
               drugs |-> <<aceInhibitors[1].drug, nsaids[1].drug>>]>>
       ELSE <<>>

\* the handler's locals when it reaches the interaction loop
NewContext(n, body, pdfDrugs) ==
  [req |-> n, sessionId |-> body.sessionId,
   prescriptions |-> body.prescriptions.items,
   allPatientDrugs |-> pdfDrugs \o body.patientHistory,
   role |-> body.role,
   risks |-> RenalRisk(body.prescriptions.items),
   interactions |-> <<>>, idx |-> 1, lookups |-> <<>>]

\* the loop has a lookup to await for prescription idx
AwaitsLookup(ctx) == ctx.idx <= Len(ctx.prescriptions) /\ Len(ctx.allPatientDrugs) > 0

AfterLookup_DropOnThrow(ctx, outcome) ==
  [ctx EXCEPT !.interactions =
                 IF outcome = "conflict"
                   THEN Append(@, [drug |-> ctx.prescriptions[ctx.idx].drug,
                                   interaction |-> ConflictDetails])
                   ELSE IF outcome = "throws" THEN <<>> ELSE @,
              !.idx = @ + 1,
              !.lookups = Append(@, outcome)]

\* one pass of the loop body once its lookup has settled (try / catch)
AfterLookup(ctx, outcome) ==
  [ctx EXCEPT !.interactions =
                 IF outcome = "conflict"
                   THEN Append(@, [drug |-> ctx.prescriptions[ctx.idx].drug,
                                   interaction |-> ConflictDetails])
                   ELSE @,
              !.idx = @ + 1,
              !.lookups = Append(@, outcome)]

SafetyCheckOf(ctx) ==
  [sessionId |-> ctx.sessionId, prescriptions |-> ctx.prescriptions,
   patientHistory |-> ctx.allPatientDrugs,
   interactions |-> ctx.interactions, risks |-> ctx.risks]

\* Text is a sequence of pieces: a template literal with the values of its
\* ${...} holes, or a separator.
Piece(text) == [text |-> text]
Space == Piece(" ")
Comma == Piece(", ")

\* Array.prototype.join
RECURSIVE Join(_, _)
Join(parts, separator) ==
  IF Len(parts) = 0 THEN <<>>
  ELSE IF Len(parts) = 1 THEN parts
  ELSE <<Head(parts), separator>> \o Join(Tail(parts), separator)

\* Array.prototype.slice(0, n)
Slice(list, n) == SubSeq(list, 1, IF Len(list) < n THEN Len(list) ELSE n)

RenalNote(aceDrug, nsaidDrug) ==
  [text |-> "For patients on ${aceDrug}, consider renal monitoring or follow-up if ${nsaidDrug} use extends beyond the prescribed duration.",
   aceDrug |-> aceDrug, nsaidDrug |-> nsaidDrug]
\* the interactions are objects: each prints as [object Object]
ReviewNote(interactions) ==
  [text |-> "Review potential interactions: ${joined}.",
   joined |-> Join([i \in DOMAIN interactions |-> Piece("[object Object]")], Comma)]
AgeNote ==
  Piece("Patient is over 65 - consider reduced dosing or closer monitoring for new medications.")
StandardNote ==
  Piece("Standard follow-up recommended. Monitor patient response to prescribed medications.")

NsaidWatch ==
  Piece("If pain lasts beyond the prescribed duration or you notice swelling, reduced urination, or unusual symptoms, contact your provider immediately.")
KidneyWatch ==
  Piece("Since you're taking both blood pressure medication and pain medication, watch for signs of kidney issues: reduced urination, swelling in your legs or feet, or unusual fatigue. Contact your provider if these occur.")
ContactProvider ==
  Piece("If you experience any unexpected side effects or your symptoms don't improve as expected, contact your provider.")
CompleteCourse ==
  Piece("Remember to take your medications as prescribed and complete the full course unless your doctor advises otherwise.")

\* mutant: the standard sentence is pushed whenever the renal sentence is not
GenerateClinicianNote_StandardUnlessRenal(safetyCheck) ==
  LET aceInhibitors == SelectSeq(safetyCheck.prescriptions, IsAceInhibitor)
      nsaids == SelectSeq(safetyCheck.prescriptions, IsNsaid)
      renal == IF Len(aceInhibitors) > 0 /\ Len(nsaids) > 0
                 THEN <<RenalNote(aceInhibitors[1].drug, nsaids[1].drug)>>
                 ELSE <<>>
      review == IF "interactions" \in DOMAIN safetyCheck
                   /\ Len(safetyCheck.interactions) > 0
                  THEN <<ReviewNote(Slice(safetyCheck.interactions, 3))>>
                  ELSE <<>>
      age == IF "patientAge" \in DOMAIN safetyCheck /\ safetyCheck.patientAge > 65
               THEN <<AgeNote>> ELSE <<>>
      notes == renal \o review \o age
  IN Join(IF Len(renal) = 0 THEN Append(notes, StandardNote) ELSE notes, Space)

\* messageGenerator.generateClinicianNote
GenerateClinicianNote(safetyCheck) ==
  LET aceInhibitors == SelectSeq(safetyCheck.prescriptions, IsAceInhibitor)
      nsaids == SelectSeq(safetyCheck.prescriptions, IsNsaid)
      renal == IF Len(aceInhibitors) > 0 /\ Len(nsaids) > 0
                 THEN <<RenalNote(aceInhibitors[1].drug, nsaids[1].drug)>>
                 ELSE <<>>
      review == IF "interactions" \in DOMAIN safetyCheck
                   /\ Len(safetyCheck.interactions) > 0
                  THEN <<ReviewNote(Slice(safetyCheck.interactions, 3))>>
                  ELSE <<>>
      age == IF "patientAge" \in DOMAIN safetyCheck /\ safetyCheck.patientAge > 65
               THEN <<AgeNote>> ELSE <<>>
      notes == renal \o review \o age
  IN Join(IF Len(notes) = 0 THEN <<StandardNote>> ELSE notes, Space)

\* mutant: the reminder is pushed before the general sentence is decided
GeneratePatientFollowUp_ReminderFirst(safetyCheck) ==
  LET nsaids == SelectSeq(safetyCheck.prescriptions, IsNsaid)
      aceInhibitors == SelectSeq(safetyCheck.prescriptions, IsAceInhibitor)
      pain == IF Len(nsaids) > 0 THEN <<NsaidWatch>> ELSE <<>>
      kidney == IF Len(aceInhibitors) > 0 /\ Len(nsaids) > 0
                  THEN <<KidneyWatch>> ELSE <<>>
      reminder == IF Len(safetyCheck.prescriptions) > 0 THEN <<CompleteCourse>> ELSE <<>>
      messages == pain \o kidney \o reminder
  IN Join(IF Len(messages) = 0 THEN <<ContactProvider>> ELSE messages, Space)

\* messageGenerator.generatePatientFollowUp
GeneratePatientFollowUp(safetyCheck) ==
  LET nsaids == SelectSeq(safetyCheck.prescriptions, IsNsaid)
      aceInhibitors == SelectSeq(safetyCheck.prescriptions, IsAceInhibitor)
      pain == IF Len(nsaids) > 0 THEN <<NsaidWatch>> ELSE <<>>
      kidney == IF Len(aceInhibitors) > 0 /\ Len(nsaids) > 0
                  THEN <<KidneyWatch>> ELSE <<>>
      messages == pain \o kidney
      general == IF Len(messages) = 0 THEN <<ContactProvider>> ELSE messages
  IN Join(IF Len(safetyCheck.prescriptions) > 0
            THEN Append(general, CompleteCourse) ELSE general,
          Space)

VisitData(ctx, t) ==
  LET safetyCheck == SafetyCheckOf(ctx)
  IN [sessionId |-> ctx.sessionId, startTime |-> t - 3600000, endTime |-> t,
      prescriptions |-> ctx.prescriptions, patientHistory |-> ctx.allPatientDrugs,
      safetyCheck |-> safetyCheck,
      clinicianNote |-> GenerateClinicianNote(safetyCheck),
      patientFollowUp |-> GeneratePatientFollowUp(safetyCheck),
      role |-> IF ctx.role = NoRoleField THEN "patient" ELSE ctx.role,
      createdAt |-> t]

\* the loop is over: generate the messages, visitSessions.set, res.json
Complete(ctx) ==
  LET visitData == VisitData(ctx, now)
  IN /\ visitSessions' = [visitSessions EXCEPT ![ctx.sessionId] = visitData]
     /\ lastResponse' = [req |-> ctx.req, status |-> 200, sessionId |-> ctx.sessionId,
                         safetyCheck |-> visitData.safetyCheck,
                         clinicianNote |-> visitData.clinicianNote,
                         patientFollowUp |-> visitData.patientFollowUp,
                         success |-> TRUE, lookups |-> ctx.lookups]
     /\ succeeded' = succeeded \cup {ctx.sessionId}

\* return res.status(400).json({ error: 'Missing required fields' })
Reject(n, body) ==
  /\ lastResponse' = [req |-> n, status |-> 400, lookups |-> <<>>,
                      sessionId |-> body.sessionId,
                      isArray |-> body.prescriptions.isArray]
  /\ UNCHANGED <<visitSessions, succeeded, inflight>>

Fail_StoresPartial(n, id) ==
  /\ lastResponse' = [req |-> n, status |-> 500, lookups |-> <<>>]
  /\ visitSessions' = [visitSessions EXCEPT ![id] = [sessionId |-> id]]
  /\ UNCHANGED <<succeeded, inflight>>

\* the catch block: res.status(500).json(...)
Fail(n, id) ==
  /\ lastResponse' = [req |-> n, status |-> 500, lookups |-> <<>>]
  /\ UNCHANGED <<visitSessions, succeeded, inflight>>

\* the handler of POST /post-visit-safety-check on a request body, up to its
\* first await or its answer
HandleSafetyCheck(body) ==
  LET n == requestCount + 1
  IN /\ requestCount' = n
     /\ IF Rejected(body) THEN Reject(n, body)
        ELSE IF FilterThrows(body.prescriptions.items) THEN Fail(n, body.sessionId)
        ELSE LET ctx == NewContext(n, body, storedPdf)
             IN IF AwaitsLookup(ctx)
                  THEN /\ inflight' = inflight \cup {ctx}
                       /\ UNCHANGED <<visitSessions, lastResponse, succeeded>>
                  ELSE /\ Complete(ctx)
                       /\ UNCHANGED inflight
     /\ UNCHANGED <<storedPdf, lastGet, generated>>

\* POST /post-visit-safety-check from any client
PostSafetyCheck ==
  /\ requestCount < MaxRequests
  /\ \E body \in RequestBodies : HandleSafetyCheck(body)
  /\ UNCHANGED outsideServer

\* the interaction loop from ctx on, the lookup for prescription i settling
\* as outcomes[i]
RECURSIVE RunLoop(_, _)
RunLoop(ctx, outcomes) ==
  IF AwaitsLookup(ctx)
    THEN RunLoop(AfterLookup(ctx, outcomes[ctx.idx]), outcomes)
    ELSE ctx

\* A suspended handler runs to its answer. The awaits inside the loop touch
\* only the handler's locals, so the loop is one step here; other requests
\* are served between the first await and the answer.
LookupsSettle ==
  /\ \E ctx \in inflight :
       \E outcomes \in [DOMAIN ctx.prescriptions -> LookupOutcomes] :
         /\ Complete(RunLoop(ctx, outcomes))
         /\ inflight' = inflight \ {ctx}
  /\ UNCHANGED <<storedPdf, requestCount, lastGet, generated>>
  /\ UNCHANGED outsideServer

\* GET /visit-summary/:sessionId (the body of a 200 answer is visitSessions[id])
GetVisitSummary ==
  /\ \E id \in SessionIds :
       lastGet' = IF visitSessions[id] = Absent
                    THEN [sessionId |-> id, status |-> 404]
                    ELSE [sessionId |-> id, status |-> 200]
  /\ UNCHANGED <<storedPdf, visitSessions, inflight, requestCount, lastResponse, succeeded,
                 generated>>
  /\ UNCHANGED outsideServer

\* POST /upload-pdf: storedPdf = { text, drugs }
UploadPdf ==
  /\ \E drugs \in PdfDrugLists : storedPdf' = drugs /\ drugs # storedPdf
  /\ UNCHANGED <<visitSessions, inflight, requestCount, lastResponse, succeeded, lastGet,
                 generated>>
  /\ UNCHANGED outsideServer

\* ------------------------------------------------------- messageGenerator
\* the SafetyCheck values given to the generators: the prescriptions of a
\* request, the risks of the rule pass, up to MaxInteractions findings, and
\* optionally interactions or patientAge left out
CheckedPrescriptions ==
  {items \in PrescriptionLists : ~FilterThrows(items)} \cup {<<Rx(AMOXICILLIN)>>}
PatientAges == {65, 66, 80}
Findings(n) == [i \in 1..n |-> [drug |-> "Warfarin", interaction |-> ConflictDetails]]

SafetyChecks ==
  {[sessionId |-> "visit-1", prescriptions |-> items, patientHistory |-> <<>>,
    interactions |-> Findings(n), risks |-> RenalRisk(items)] :
      items \in CheckedPrescriptions, n \in 0..MaxInteractions}
  \cup
  {[sessionId |-> "visit-1", prescriptions |-> items, patientHistory |-> <<>>,
    interactions |-> Findings(n), risks |-> RenalRisk(items), patientAge |-> age] :
      items \in CheckedPrescriptions, n \in 0..MaxInteractions, age \in PatientAges}
  \cup
  {[sessionId |-> "visit-1", prescriptions |-> items, patientHistory |-> <<>>,
    risks |-> RenalRisk(items)] : items \in CheckedPrescriptions}

\* both generators applied to one SafetyCheck
GenerateMessages ==
  /\ \E safetyCheck \in SafetyChecks :
       generated' = [called |-> TRUE, safetyCheck |-> safetyCheck,
                     clinicianNote |-> GenerateClinicianNote(safetyCheck),
                     patientFollowUp |-> GeneratePatientFollowUp(safetyCheck)]
  /\ UNCHANGED <<storedPdf, visitSessions, inflight, requestCount, lastResponse,
                 succeeded, lastGet>>
  /\ UNCHANGED outsideServer

\* ------------------------------------------------ one call, client to server
\* the instants of the visit after its start: 2 s and 60 s later
CallInstants == {3000, 61000}

\* the names extractDrugs hands to onPrescriptionDetected during the visit
CallDrugs == {Capitalize(LISINOPRIL), Capitalize(NAPROXEN)}

\* CallWithSTT.onPrescriptionDetected(drug) during the visit
DetectedInCall == PrescriptionDetected(CallDrugs)

\* Time passes during the call, up to the next instant of the visit. React
\* applies queued updates within the task that queued them, so no second
\* passes with a render outstanding.
CallTick ==
  /\ rendered = pending
  /\ \E t \in CallInstants : t > now /\ now' = t
  /\ UNCHANGED <<pending, rendered, startedRef, managerStarts, demoMentions, nextConfusion,
                 nextSession, opened, lastSnapshot, finalized, checks, outbox, addLog,
                 mentionLog>>
  /\ UNCHANGED <<sttVars, serverVars, managerVars, pageVars>>

\* the request sent by triggerPostVisitSafetyCheck reaches the server
SafetyCheckArrives ==
  /\ outbox # <<>>
  /\ requestCount < MaxRequests
  /\ HandleSafetyCheck(Head(outbox))
  /\ outbox' = Tail(outbox)
  /\ UNCHANGED <<now, pending, rendered, startedRef, managerStarts, demoMentions,
                 nextConfusion, nextSession, opened, lastSnapshot, finalized, checks,
                 addLog, mentionLog>>
  /\ UNCHANGED <<sttVars, managerVars, pageVars>>

\* ------------------------------------------ CallWithSTT: the in-call check
NoResult == [shown |-> FALSE]

\* what `await fetch('/check-interactions')` and `await res.json()` give: the
\* JSON of the answer, or an exception
CheckOutcomes == {"conflict", "none", "failed"}

\* onPrescriptionDetected(drug) up to its first await (publishData): the two
\* appends to the session, setIsChecking(true), setResult(null)
InCallDetected ==
  /\ Len(mentionLog) < MaxDetections
  /\ \E drug \in SessionDrugs :
       LET mention == [drug |-> drug, timestamp |-> now]
           prescription == [drug |-> drug, timestamp |-> now]
       IN /\ pending' = [pending EXCEPT !.drugMentions = Append(@, mention),
                                        !.prescriptions = Append(@, prescription)]
          /\ mentionLog' = Append(mentionLog, mention)
          /\ drugChecks' = drugChecks \cup {[detection |-> Len(mentionLog) + 1,
                                             drug |-> drug, at |-> "publishData"]}
  /\ isChecking' = TRUE
  /\ result' = NoResult
  /\ UNCHANGED <<now, rendered, startedRef, managerStarts, demoMentions, nextConfusion,
                 nextSession, opened, lastSnapshot, finalized, checks, outbox, addLog>>
  /\ UNCHANGED <<sttVars, serverVars, managerVars, settleVars, linkLog, monitorVars>>

\* publishData has settled (sent, or failed and warned): the call goes on to
\* fetch('/check-interactions')
BroadcastDone ==
  /\ \E c \in drugChecks :
       /\ c.at = "publishData"
       /\ drugChecks' = (drugChecks \ {c}) \cup {[c EXCEPT !.at = "fetch"]}
  /\ UNCHANGED <<isChecking, result>>
  /\ UNCHANGED <<storeVars, sttVars, serverVars, managerVars, settleVars, linkLog, monitorVars>>

\* the fetch of one call has settled: setResult(data) or the failure text in
\* the catch block, then setIsChecking(false) in finally
InteractionCheckSettles ==
  /\ \E c \in drugChecks, outcome \in CheckOutcomes :
       /\ c.at = "fetch"
       /\ drugChecks' = drugChecks \ {c}
       /\ result' = [shown |-> TRUE, detection |-> c.detection, drug |-> c.drug,
                     hasConflict |-> outcome = "conflict",
                     details |-> IF outcome = "failed"
                                   THEN "Conflict check request failed."
                                   ELSE ConflictDetails]
  /\ isChecking' = FALSE
  /\ UNCHANGED <<storeVars, sttVars, serverVars, managerVars, settleVars, linkLog, monitorVars>>

\* ------------------------------- OvershootDemo: the comprehension monitor
\* what /api/analyze-comprehension answers (data.state, data.confidence), or
\* the fetch or response.json() throwing
AnalysisOutcomes ==
  {[ok |-> TRUE, state |-> st, confidence |-> c] :
     st \in ConfusionStates, c \in {"MEDIUM", "HIGH"}}
  \cup {[ok |-> FALSE]}

\* what the monitor has done so far: ticks that started a request or returned
\* at the guard, requests that were logged or failed
TicksSoFar ==
  Len(SelectSeq(monitorLog, LAMBDA step : step \in {"started", "skipped"}))

\* mutant: analyzeComprehension without the isAnalyzingRef guard
AnalyzeComprehension_NoGuard ==
  /\ isAnalyzingRef' = TRUE
  /\ analyses' = analyses \cup {[tick |-> TicksSoFar + 1,
                                 drugMentions |-> rendered.drugMentions]}
  /\ monitorLog' = Append(monitorLog, "started")

\* analyzeComprehension up to its await: return at the guard, or set the flag
\* and send the request (the closure keeps the session of this render)
AnalyzeComprehension ==
  IF isAnalyzingRef
    THEN /\ monitorLog' = Append(monitorLog, "skipped")
         /\ UNCHANGED <<isAnalyzingRef, analyses>>
    ELSE /\ isAnalyzingRef' = TRUE
         /\ analyses' = analyses \cup {[tick |-> TicksSoFar + 1,
                                        drugMentions |-> rendered.drugMentions]}
         /\ monitorLog' = Append(monitorLog, "started")

\* the start timeout or the 10 s interval fires
MonitorTick ==
  /\ TicksSoFar < MaxMonitorTicks
  /\ AnalyzeComprehension
  /\ UNCHANGED <<storeVars, sttVars, serverVars, managerVars, settleVars, linkLog, checkVars>>

\* a request settles: session.addConfusionEvent on an answer, console.error
\* on a failure, and isAnalyzingRef.current = false in finally
AnalysisSettles ==
  /\ \E call \in analyses, data \in AnalysisOutcomes :
       /\ analyses' = analyses \ {call}
       /\ IF data.ok
            THEN /\ ConfusionAppended(MaxQueued,
                                      [state |-> data.state, confidence |-> data.confidence,
                                       drugContext |-> NoDrug],
                                      call.drugMentions)
                 /\ monitorLog' = Append(monitorLog, "logged")
            ELSE /\ monitorLog' = Append(monitorLog, "failed")
                 /\ UNCHANGED <<pending, addLog, nextConfusion>>
  /\ isAnalyzingRef' = FALSE
  /\ UNCHANGED <<now, rendered, startedRef, managerStarts, demoMentions, nextSession,
                 opened, lastSnapshot, finalized, checks, outbox, mentionLog>>
  /\ UNCHANGED <<sttVars, serverVars, managerVars, settleVars, linkLog, checkVars>>

\* ------------------------------------ triggerPostVisitSafetyCheck, settled
\* How the fetch settles: the promise rejects (network error), an answer
\* arrives that the handler did not produce (a gateway error, response.ok
\* false), or the handler serves the request.
FetchOutcomes == {"rejects", "unavailable", "served"}

\* mutant: the catch block sends the participant to the summary page as well
AfterFailure_Redirects(request) ==
  /\ errorLog' = Append(errorLog, request.sessionId)
  /\ redirects' = Append(redirects,
                         [page |-> "visit-summary", sessionId |-> request.sessionId])

\* catch (error) { console.error('[VisitManager] Post-visit safety check error:', error) }
AfterFailure(request) ==
  /\ errorLog' = Append(errorLog, request.sessionId)
  /\ UNCHANGED redirects

\* after `const result = await response.json()` gave `answer`: the setTimeout that sets
\* window.location.href, by role
AfterSuccess(request, answer) ==
  /\ UNCHANGED errorLog
  /\ redirects' =
       IF request.role = "doctor"
         THEN Append(redirects,
                     [page |-> "visit-transcript", sessionId |-> request.sessionId])
         ELSE IF request.role = "patient" /\ answer.sessionId # NoSessionId
           THEN Append(redirects,
                       [page |-> "visit-summary", sessionId |-> answer.sessionId])
           ELSE redirects

\* The fetch of the oldest outstanding safety check settles and the rest of
\* triggerPostVisitSafetyCheck runs. No PDF is stored and the request has no
\* patientHistory, so a served request is answered without a lookup.
SafetyCheckSettles ==
  /\ outbox # <<>>
  /\ requestCount < MaxRequests
  /\ \E outcome \in FetchOutcomes :
       LET request == Head(outbox)
       IN IF outcome = "served"
            THEN /\ HandleSafetyCheck(request)
                 /\ inflight' = inflight
                 /\ IF lastResponse'.status = 200
                      THEN AfterSuccess(request, lastResponse')
                      ELSE AfterFailure(request)
            ELSE /\ AfterFailure(request)
                 /\ UNCHANGED serverVars
  /\ outbox' = Tail(outbox)
  /\ UNCHANGED <<now, pending, rendered, startedRef, managerStarts, demoMentions,
                 nextConfusion, nextSession, opened, lastSnapshot, finalized, checks,
                 addLog, mentionLog>>
  /\ UNCHANGED <<sttVars, managerVars, linkLog, checkVars, monitorVars>>

\* The state after the page has mounted and the server has started
Init ==
  /\ now = 1000
  /\ pending = EmptyStore
  /\ rendered = EmptyStore
  /\ startedRef = FALSE
  /\ demoMentions = NotRegistered
  /\ nextConfusion = 1
  /\ nextSession = 1
  /\ opened = NoOpen
  /\ lastSnapshot = NoCall
  /\ finalized = <<>>
  /\ checks = <<>>
  /\ outbox = <<>>
  /\ managerStarts = 0
  /\ roomState = "connecting"
  /\ roleContext = NoRole
  /\ listener = NotRegistered
  /\ signals = 0
  /\ addLog = <<>>
  /\ mentionLog = <<>>
  /\ lastDrugRef = NoKey
  /\ debounceTimer = NoTimer
  /\ renderDue = FALSE
  /\ detections = <<>>
  /\ storedPdf = <<>>
  /\ visitSessions = [id \in SessionIds |-> Absent]
  /\ inflight = {}
  /\ requestCount = 0
  /\ lastResponse = NoResponse
  /\ succeeded = {}
  /\ lastGet = NoGet
  /\ generated = NoCall
  /\ errorLog = <<>>
  /\ redirects = <<>>
  /\ linkLog = <<>>
  /\ isChecking = FALSE
  /\ result = NoResult
  /\ drugChecks = {}
  /\ isAnalyzingRef = FALSE
  /\ analyses = {}
  /\ monitorLog = <<>>

ServerNext ==
  \/ PostSafetyCheck
  \/ LookupsSettle
  \/ GetVisitSummary
  \/ UploadPdf

ServerSpec == Init /\ [][ServerNext]_vars

\* The drug-detection debouncer of PrescriptionSTT
DebounceNext ==
  \/ OnResult
  \/ DebounceTimeout
  \/ RecognizerEffectCleanup
  \/ SttTick

DebounceSpec == Init /\ [][DebounceNext]_vars

\* Session lifecycle: VisitManager, the speech pipeline and the vision callback
StoreNext ==
  \/ StartVisit
  \/ Connected
  \/ Disconnected
  \/ OnPrescriptionDetected
  \/ AddConfusionVision
  \/ Render
  \/ Tick

StoreSpec == Init /\ [][StoreNext]_vars

\* Confusion/drug correlation: every producer of confusion events
CorrelationNext ==
  \/ OnPrescriptionDetected
  \/ AddConfusionCurrent
  \/ AddConfusionVision
  \/ AddConfusionDemo
  \/ StartDemoMode
  \/ Render
  \/ Tick

CorrelationSpec == Init /\ [][CorrelationNext]_vars

LifecycleNext ==
  \/ StartEffect
  \/ RoleResolves
  \/ ConnectedSignal
  \/ RoomLeavesConnected
  \/ Disconnected
  \/ Render
  \/ Tick

LifecycleSpec == Init /\ [][LifecycleNext]_vars

\* One visit from connect to the stored record. No PDF is uploaded and the
\* visit data carries no patientHistory, so allPatientDrugs is empty and the
\* handler has no lookup to await.
VisitNext ==
  \/ Connected
  \/ DetectedInCall
  \/ Render
  \/ CallTick
  \/ Disconnected
  \/ SafetyCheckArrives

VisitSpec == Init /\ [][VisitNext]_vars

\* The end of a visit on the page: the call, the 'disconnected' signal and the
\* safety-check request settling either way
FinalizeNext ==
  \/ Connected
  \/ DetectedInCall
  \/ Render
  \/ CallTick
  \/ Disconnected
  \/ SafetyCheckSettles

FinalizeSpec == Init /\ [][FinalizeNext]_vars

\* Attaching drugContext by id while events are appended and the provider
\* re-renders
LinkNext ==
  \/ AddConfusionQueued
  \/ LinkConfusionToDrug
  \/ Render

LinkSpec == Init /\ [][LinkNext]_vars

\* The logs during a visit: the visit starts while events, mentions and
\* attachments arrive and the provider re-renders
AttachNext ==
  \/ Connected
  \/ AddConfusionQueued
  \/ OnPrescriptionDetected
  \/ LinkConfusionToDrug
  \/ Render

AttachSpec == Init /\ [][AttachNext]_vars

\* The logs of one mounted provider: a visit starts and ends while events
\* and mentions arrive and the provider re-renders
LogNext ==
  \/ Connected
  \/ AddConfusionVision
  \/ OnPrescriptionDetected
  \/ Render
  \/ Disconnected

LogSpec == Init /\ [][LogNext]_vars

\* The in-call interaction check: detections, their broadcasts and fetches
\* settling in any order, and the provider re-rendering
InCallNext ==
  \/ InCallDetected
  \/ BroadcastDone
  \/ InteractionCheckSettles
  \/ Render

InCallSpec == Init /\ [][InCallNext]_vars

\* The background monitor: timer ticks, requests settling either way, and
\* the provider re-rendering
MonitorNext ==
  \/ MonitorTick
  \/ AnalysisSettles
  \/ Render

MonitorSpec == Init /\ [][MonitorNext]_vars

\* The clarification trigger: producers of confusion events with and without
\* a current closure, the role resolving, and the panel re-rendering with the
\* provider
TriggerNext ==
  \/ RoleResolves
  \/ OnPrescriptionDetected
  \/ AddConfusionCurrent
  \/ AddConfusionVision
  \/ Render
  \/ PanelTick

TriggerSpec == Init /\ [][TriggerNext]_vars

\* The message generators as functions of a SafetyCheck
MessageNext ==
  \/ GenerateMessages

MessageSpec == Init /\ [][MessageNext]_vars

\* ------------------------------------------------------------------ claims
RECURSIVE IsSubSeq(_, _)
IsSubSeq(small, big) ==
  IF small = <<>> THEN TRUE
  ELSE IF big = <<>> THEN FALSE
  ELSE IF Head(small) = Head(big) THEN IsSubSeq(Tail(small), Tail(big))
  ELSE IsSubSeq(small, Tail(big))

NoDuplicates(seq) ==
  \A i, j \in DOMAIN seq : i # j => seq[i] # seq[j]

\* C1: every started session is finalized at most once: no sessionId is
\* returned by two endVisit calls, and no sessionId gets two safety checks
\* (an endVisit on an already-ended session must return null).
C1_FinalizedAtMostOnce ==
  NoDuplicates(finalized) /\ NoDuplicates(checks)

\* C2: no appended event is lost: when endVisit returns a snapshot, every
\* confusion event, drug mention and prescription appended since startVisit
\* is in the snapshot, in append order.
C2_NoAppendLost ==
  [][finalized' # finalized =>
       /\ IsSubSeq(AppendedSinceStart.confusionEvents,
                   lastSnapshot'.visitData.confusionEvents)
       /\ IsSubSeq(AppendedSinceStart.drugMentions,
                   lastSnapshot'.visitData.drugMentions)
       /\ IsSubSeq(AppendedSinceStart.prescriptions,
                   lastSnapshot'.visitData.prescriptions)]_vars

\* C3: startVisit is idempotent while a session is active: as long as the
\* session stays active, sessionId, startTime, role and participantIdentity
\* keep the values of the first startVisit.
C3_StartVisitIdempotent ==
  [][(pending.sessionId # NoSession /\ pending'.sessionId # NoSession) =>
       /\ pending'.sessionId = pending.sessionId
       /\ pending'.visitStartTime = pending.visitStartTime
       /\ pending'.role = pending.role
       /\ pending'.participantIdentity = pending.participantIdentity]_vars

\* C4: a CONFUSION event added less than 10 s after a drug mention was
\* appended is stored with drugContext equal to that (most recent) drug,
\* whichever producer called addConfusionEvent.
C4_RecentMentionLinked ==
  [][nextConfusion' # nextConfusion =>
       LET e == pending'.confusionEvents[Len(pending'.confusionEvents)]
           recent == SelectSeq(pending.drugMentions,
                               LAMBDA dm : now - dm.timestamp < 10000)
       IN (e.state = "CONFUSION" /\ Len(recent) > 0) =>
            e.drugContext = recent[Len(recent)].drug]_vars

\* C5: a stored confusion event whose drugContext was not supplied by the
\* caller names a drug that was mentioned less than 10 s before the event;
\* a mention that is 10 s old or older is never linked.
C5_NoLinkOutsideWindow ==
  \A i \in DOMAIN pending.confusionEvents :
    LET e == pending.confusionEvents[i]
    IN e.drugContext # addLog[e.id].given =>
         \E k \in DOMAIN mentionLog :
           /\ mentionLog[k].drug = e.drugContext
           /\ mentionLog[k].timestamp <= e.timestamp
           /\ e.timestamp - mentionLog[k].timestamp < 10000

\* C5 witness: a CONFUSION event was added through a closure that held a
\* mention exactly at the 10 s boundary, and it was stored without drugContext.
C5_Witness ==
  \E i \in DOMAIN pending.confusionEvents :
    LET e == pending.confusionEvents[i]
    IN /\ e.state = "CONFUSION"
       /\ addLog[e.id].given = NoDrug
       /\ addLog[e.id].sawOld
       /\ e.drugContext = NoDrug
       /\ \E k \in DOMAIN mentionLog : e.timestamp - mentionLog[k].timestamp = 10000

\* C6: within 8 s of a firing of key K the downstream action does not fire
\* again for K, whatever other keys are detected in between.
C6_NoRefireInsideWindow ==
  \A i, j \in DOMAIN detections :
    (i < j /\ detections[i].fired /\ detections[j].fired
       /\ detections[i].key = detections[j].key)
      => detections[j].at - detections[i].at >= 8000

\* C7: the cooldown expires: a detection of key K made 8 s or more after the
\* last firing of K (or with no earlier firing of K) fires the downstream action.
C7_CooldownExpires ==
  \A j \in DOMAIN detections :
    (\A i \in 1..(j - 1) :
        (detections[i].fired /\ detections[i].key = detections[j].key)
          => detections[j].at - detections[i].at >= 8000)
      => detections[j].fired

RECURSIVE ConflictFindings(_, _)
ConflictFindings(prescriptions, lookups) ==
  IF lookups = <<>> THEN <<>>
  ELSE LET n == Len(lookups)
           before == ConflictFindings(prescriptions, SubSeq(lookups, 1, n - 1))
       IN IF lookups[n] = "conflict"
            THEN Append(before, [drug |-> prescriptions[n].drug,
                                 interaction |-> ConflictDetails])
            ELSE before

FirstIndex(S) == CHOOSE i \in S : \A j \in S : i <= j

C9_OracleFailureIsolated ==
  (\E i \in DOMAIN lastResponse.lookups : lastResponse.lookups[i] = "throws") =>
    /\ lastResponse.status = 200
    /\ lastResponse.success
    /\ lastResponse.safetyCheck.interactions =
         ConflictFindings(lastResponse.safetyCheck.prescriptions,
                          lastResponse.lookups)

C9_Witness ==
  /\ lastResponse.status = 200
  /\ lastResponse.lookups = <<"conflict", "throws", "conflict">>
  /\ Len(lastResponse.safetyCheck.interactions) = 2

\* C10: a record is stored for a sessionId exactly when a request for it was
\* answered with success; a 400 or 500 answer leaves the map as it was, and
\* retrieval answers 200 for the ids with a success and 404 for the others.
C10_RecordIffSuccess ==
  [][/\ \A id \in SessionIds : (visitSessions'[id] # Absent) <=> (id \in succeeded')
     /\ (lastResponse'.req # lastResponse.req /\ lastResponse'.status \in {400, 500})
          => visitSessions' = visitSessions
     /\ lastGet' # lastGet =>
          /\ lastGet'.status = 200 <=> lastGet'.sessionId \in succeeded
          /\ lastGet'.status = 404 <=> lastGet'.sessionId \notin succeeded]_vars

C10_Witness ==
  /\ lastResponse.status = 500
  /\ lastGet.status = 404
  /\ succeeded = {"visit-1"}
  /\ visitSessions["visit-2"] = Absent
  /\ visitSessions["visit-1"] # Absent

C12_RecordImmutable ==
  [][\A id \in SessionIds :
       visitSessions[id] # Absent => visitSessions'[id] = visitSessions[id]]_vars

\* C13: VisitManager calls startVisit at most once while it is mounted,
\* however many 'connected' events arrive and however often the start effect
\* runs (room connected at mount, role resolving late, duplicate events).
C13_StartedAtMostOnce ==
  managerStarts <= 1

C13_Witness ==
  /\ managerStarts = 1
  /\ signals >= 2
  /\ listener.registered
  /\ pending.sessionId = NoSession
  /\ Len(finalized) = 1

\* substring tests on generated text: the templates themselves name no drug,
\* and only the kidney-symptom sentence has the word 'kidney'
TextNames(text, drug) ==
  \E i \in DOMAIN text :
    \/ "aceDrug" \in DOMAIN text[i] /\ Includes(text[i].aceDrug, drug)
    \/ "nsaidDrug" \in DOMAIN text[i] /\ Includes(text[i].nsaidDrug, drug)
TextHasKidney(text) == \E i \in DOMAIN text : text[i] = KidneyWatch

\* the scenario: role patient, started at t = 0 (the time of Init),
\* 'lisinopril' detected at t = 0, 'naproxen' at t = 2 s, disconnected at t = 60 s
VisitScenario ==
  /\ lastSnapshot.called
  /\ lastSnapshot.visitData # NoSnapshot
  /\ lastSnapshot.visitData.role = "patient"
  /\ lastSnapshot.visitData.startTime = 1000
  /\ lastSnapshot.visitData.endTime = 61000
  /\ mentionLog = <<[drug |-> Capitalize(LISINOPRIL), timestamp |-> 1000],
                    [drug |-> Capitalize(NAPROXEN), timestamp |-> 3000]>>

\* the safety-check request of the scenario's session is on its way or is
\* being handled
ScenarioOutstanding ==
  LET key == VisitKey(lastSnapshot.visitData.sessionId)
  IN \/ \E i \in DOMAIN outbox : outbox[i].sessionId = key
     \/ \E ctx \in inflight : ctx.sessionId = key

ScenarioRecord ==
  LET record == visitSessions[VisitKey(lastSnapshot.visitData.sessionId)]
  IN /\ record # Absent
     /\ TextNames(record.clinicianNote, Capitalize(LISINOPRIL))
     /\ TextNames(record.clinicianNote, Capitalize(NAPROXEN))
     /\ TextHasKidney(record.patientFollowUp)

\* C14: a visit with role patient in which 'lisinopril' is detected at t = 0
\* and 'naproxen' at t = 2 s and which is disconnected at t = 60 s ends with
\* a stored record for its sessionId whose clinicianNote names Lisinopril and
\* Naproxen and whose patientFollowUp has the kidney sentence: once the
\* visit is disconnected, its request is still outstanding or that record
\* is stored, and no other record is ever stored for the session.
C14_VisitEndToEnd ==
  VisitScenario =>
    IF visitSessions[VisitKey(lastSnapshot.visitData.sessionId)] = Absent
      THEN ScenarioOutstanding
      ELSE ScenarioRecord

C14_Witness ==
  /\ VisitScenario
  /\ ScenarioRecord
  /\ ~ScenarioOutstanding
  /\ lastResponse.status = 200

\* the sentences of a joined text, and whether single spaces join them
Sentences(text) == [i \in 1..((Len(text) + 1) \div 2) |-> text[2 * i - 1]]
SingleSpaced(text) ==
  /\ Len(text) % 2 = 1
  /\ \A i \in DOMAIN text : (text[i] = Space) <=> (i % 2 = 0)
Templates(sentences) == [i \in DOMAIN sentences |-> sentences[i].text]

\* C15: clinicianNote is never empty: it is the renal-risk sentence (naming
\* the drug pair of the renal_risk finding), the interactions sentence and
\* the age sentence, each iff it applies (a renal_risk finding exists, an
\* interaction finding exists, patientAge > 65), in that order, joined by
\* single spaces; the standard follow-up sentence is there iff none of the
\* three applies, and [Amoxicillin] without findings gives exactly it.
C15_ClinicianNoteComposed ==
  generated.called =>
    LET check == generated.safetyCheck
        note == generated.clinicianNote
        sentences == Sentences(note)
        renal == \E i \in DOMAIN check.risks : check.risks[i].type = "renal_risk"
        review == "interactions" \in DOMAIN check /\ Len(check.interactions) > 0
        age == "patientAge" \in DOMAIN check /\ check.patientAge > 65
        expected == (IF renal THEN <<RenalNote(<<>>, <<>>).text>> ELSE <<>>)
                    \o (IF review THEN <<ReviewNote(<<>>).text>> ELSE <<>>)
                    \o (IF age THEN <<AgeNote.text>> ELSE <<>>)
    IN /\ Len(note) > 0
       /\ SingleSpaced(note)
       /\ Templates(sentences) = IF expected = <<>> THEN <<StandardNote.text>> ELSE expected
       /\ renal => /\ sentences[1].aceDrug = check.risks[1].drugs[1]
                    /\ sentences[1].nsaidDrug = check.risks[1].drugs[2]
       /\ (check.prescriptions = <<Rx(AMOXICILLIN)>> /\ ~review /\ ~age)
            => note = <<StandardNote>>

C15_Witness ==
  /\ generated.called
  /\ Templates(Sentences(generated.clinicianNote))
       = <<RenalNote(<<>>, <<>>).text, ReviewNote(<<>>).text, AgeNote.text>>
  /\ Len(generated.safetyCheck.interactions) = MaxInteractions

C17_ExplicitContextKept ==
  \A i \in DOMAIN pending.confusionEvents :
    LET e == pending.confusionEvents[i]
    IN addLog[e.id].given # NoDrug => e.drugContext = addLog[e.id].given

UnderstandingOnly(events) == SelectSeq(events, LAMBDA e : e.state = "UNDERSTANDING")

\* C18: an UNDERSTANDING event is appended to the confusion log, is stored
\* with the drugContext the caller gave (never an auto-linked one), and the
\* UNDERSTANDING events alone never make the Panel Trigger true, for either
\* role, whatever drug mentions were made around them.
C18_UnderstandingInert ==
  /\ \A id \in DOMAIN addLog :
       addLog[id].state = "UNDERSTANDING" =>
         \E i \in DOMAIN pending.confusionEvents :
           /\ pending.confusionEvents[i].id = id
           /\ pending.confusionEvents[i].state = "UNDERSTANDING"
           /\ pending.confusionEvents[i].drugContext = addLog[id].given
  /\ \A role \in Roles :
       ~PanelTrigger(role, UnderstandingOnly(rendered.confusionEvents), now)
  /\ PanelTrigger(roleContext, rendered.confusionEvents, now) =>
       \E i \in DOMAIN rendered.confusionEvents :
         rendered.confusionEvents[i].state = "CONFUSION"

C18_Witness ==
  /\ roleContext = "patient"
  /\ \E i \in DOMAIN rendered.confusionEvents :
       LET e == rendered.confusionEvents[i]
       IN /\ e.state = "UNDERSTANDING"
          /\ e.confidence = "HIGH"
          /\ e.drugContext = "Naproxen"
          /\ addLog[e.id].sawRecent
          /\ mentionLog[Len(mentionLog)].drug = "Ibuprofen"

\* C19: when a render of the panel shows the trigger, the role is patient
\* and there is a CONFUSION event no older than 15 s whose confidence is not
\* LOW and whose drugContext is set.
C19_TriggerWithin15s ==
  [][rendered' # rendered =>
       (PanelTrigger(roleContext, rendered'.confusionEvents, now) =>
          /\ roleContext = "patient"
          /\ \E i \in DOMAIN rendered'.confusionEvents :
               LET e == rendered'.confusionEvents[i]
               IN /\ e.state = "CONFUSION"
                  /\ e.confidence # "LOW"
                  /\ e.drugContext # NoDrug
                  /\ now - e.timestamp <= 15000)]_vars

\* C20: when the patient history holds the ACE inhibitor Lisinopril and an
\* NSAID is prescribed in the visit, the stored safety check reports a
\* renal_risk finding, the clinician note has the renal-monitoring sentence
\* and the patient follow-up has the kidney sentence.
C20_HistoryRenalRisk ==
  \A id \in SessionIds :
    LET record == visitSessions[id]
    IN (/\ record # Absent
        /\ \E k \in DOMAIN record.patientHistory : record.patientHistory[k] = "Lisinopril"
        /\ \E i \in DOMAIN record.prescriptions : IsNsaid(record.prescriptions[i]))
       => /\ \E j \in DOMAIN record.safetyCheck.risks :
               record.safetyCheck.risks[j].type = "renal_risk"
          /\ \E j \in DOMAIN record.clinicianNote :
               record.clinicianNote[j].text = RenalNote(<<>>, <<>>).text
          /\ TextHasKidney(record.patientFollowUp)

\* C21: sessions are independent. The record stored for a sessionId is
\* decided by that request alone: its prescriptions and its patientHistory
\* are those of a request for this sessionId, whatever was uploaded or
\* checked for other visits in between.
C21_SessionsIndependent ==
  \A id \in SessionIds :
    visitSessions[id] # Absent =>
      \E body \in RequestBodies :
        /\ body.sessionId = id
        /\ ~Rejected(body)
        /\ visitSessions[id].prescriptions = body.prescriptions.items
        /\ visitSessions[id].safetyCheck.patientHistory = body.patientHistory
        /\ visitSessions[id].patientHistory = body.patientHistory


\* C22: when two or more drug mentions lie inside the 10 s window at the
\* moment a CONFUSION event is added, the event is stored with the drug of
\* the latest of them (the last appended), e.g. Ibuprofen then Naproxen
\* links Naproxen.
C22_MostRecentOfSeveral ==
  [][nextConfusion' # nextConfusion =>
       LET e == pending'.confusionEvents[Len(pending'.confusionEvents)]
           recent == SelectSeq(mentionLog,
                               LAMBDA dm : now - dm.timestamp < AUTO_LINK_WINDOW_MS)
       IN (e.state = "CONFUSION" /\ Len(recent) >= 2) =>
            /\ e.drugContext = recent[Len(recent)].drug
            /\ \A k \in DOMAIN recent :
                 recent[k].timestamp <= recent[Len(recent)].timestamp]_vars


\* C23: every connection gets its own session. Once a session has been ended
\* by 'disconnected' and the room has left the connected state, the next
\* 'connected' signal that reaches the registered handleConnected starts a
\* new active session.
C23_NextConnectionStartsSession ==
  [][(/\ signals' = signals + 1
      /\ roomState = "disconnected"
      /\ listener.registered
      /\ Len(finalized) >= 1
      /\ pending.sessionId = NoSession)
       => pending'.sessionId # NoSession]_vars


\* C24: a failure while finalizing (network error, an answer that is not ok)
\* never re-enters Active: the step that handles it logs the error, leaves
\* the session store as endVisit cleared it (no sessionId, no log touched),
\* leaves the start latch alone and schedules no redirect.
C24_FailureStaysFinalized ==
  [][errorLog' # errorLog =>
       /\ Len(errorLog') = Len(errorLog) + 1
       /\ pending' = pending
       /\ rendered' = rendered
       /\ pending'.sessionId = NoSession
       /\ pending'.visitStartTime = NoTime
       /\ startedRef' = startedRef
       /\ redirects' = redirects]_vars

\* C24 witness: the safety check of a finalized visit failed, the store is
\* empty and nothing is scheduled
C24_Witness ==
  /\ Len(finalized) = 1
  /\ Len(errorLog) = 1
  /\ errorLog[1] = VisitKey(finalized[1])
  /\ pending = EmptyStore
  /\ redirects = <<>>
  /\ outbox = <<>>


\* the last linkConfusionToDrug call made for an id some event had (0: none)
LastLinkFor(id) ==
  LET calls == {k \in DOMAIN linkLog : linkLog[k].id = id /\ linkLog[k].known}
  IN IF calls = {} THEN 0 ELSE CHOOSE k \in calls : \A j \in calls : j <= k

C25_NoUpdateLost ==
  /\ Len(pending.confusionEvents) = nextConfusion - 1
  /\ \A i \in DOMAIN pending.confusionEvents :
       LET e == pending.confusionEvents[i]
       IN /\ e.id = i
          /\ LastLinkFor(i) # 0 => e.drugContext = linkLog[LastLinkFor(i)].drug

C25_OnlyGivenId ==
  linkLog' # linkLog =>
    LET call == linkLog'[Len(linkLog')]
        before == pending.confusionEvents
        after == pending'.confusionEvents
    IN /\ Len(after) = Len(before)
       /\ \A i \in DOMAIN before :
            after[i] = IF before[i].id = call.id
                         THEN [before[i] EXCEPT !.drugContext = call.drug]
                         ELSE before[i]
       /\ [pending' EXCEPT !.confusionEvents = before] = pending
       /\ ~call.known => pending' = pending

\* C25: attaching drugContext by event id is an atomic read-modify-write.
\* Whatever the interleaving of linkConfusionToDrug calls, appends and
\* renders, no appended event and no attachment is lost (each event carries
\* the drug of the last call made for its id), a call changes nothing but
\* the drugContext of the event with its id, and a call with an id no event
\* has changes nothing.
C25_LinkAtomic ==
  /\ []C25_NoUpdateLost
  /\ [][C25_OnlyGivenId]_vars

\* C25 witness: two events were appended and two calls attached different
\* drugs to the first of them, all before the provider rendered once; the
\* first event has the drug of the second call and the second event none
C25_Witness ==
  /\ Len(pending.confusionEvents) = 2
  /\ rendered.confusionEvents = <<>>
  /\ Len(linkLog) = 2
  /\ linkLog[1].id = 1 /\ linkLog[2].id = 1
  /\ linkLog[1].known /\ linkLog[2].known
  /\ linkLog[1].drug # linkLog[2].drug
  /\ pending.confusionEvents[1].drugContext = linkLog[2].drug
  /\ pending.confusionEvents[2].drugContext = NoDrug


IsPrefix(small, big) ==
  Len(small) <= Len(big) /\ SubSeq(big, 1, Len(small)) = small

\* C26: the logs are append-only while a session is active. Over a step that
\* starts and ends inside a session, each log keeps its entries in place and
\* only grows at its end, an existing confusion event changes in no field
\* other than drugContext, and an event whose drugContext was attached by a
\* later call is not attached again.
C26_AppendOnly ==
  [][(pending.sessionId # NoSession /\ pending'.sessionId # NoSession) =>
       /\ IsPrefix(pending.drugMentions, pending'.drugMentions)
       /\ IsPrefix(pending.prescriptions, pending'.prescriptions)
       /\ Len(pending.confusionEvents) <= Len(pending'.confusionEvents)
       /\ \A i \in DOMAIN pending.confusionEvents :
            LET old == pending.confusionEvents[i]
                new == pending'.confusionEvents[i]
            IN /\ [new EXCEPT !.drugContext = old.drugContext] = old
               /\ LastLinkFor(i) # 0 => new.drugContext = old.drugContext]_vars


\* the entries of a log that were appended before the active session started
BeforeStart(log, mark) == SubSeq(log, 1, mark)

\* C27: appending with no active session keeps the entry; the entries
\* appended before startVisit are in the snapshot of the endVisit that ends
\* that session (startVisit does not clear the logs); endVisit with no active
\* session returns null and leaves the store unchanged.
C27_RetainedWithoutSession ==
  [][/\ (pending.sessionId = NoSession /\ mentionLog' # mentionLog) =>
          /\ pending'.drugMentions =
               Append(pending.drugMentions, mentionLog'[Len(mentionLog')])
          /\ Len(pending'.prescriptions) = Len(pending.prescriptions) + 1
     /\ (pending.sessionId = NoSession /\ nextConfusion' # nextConfusion) =>
          /\ Len(pending'.confusionEvents) = Len(pending.confusionEvents) + 1
          /\ IsPrefix(pending.confusionEvents, pending'.confusionEvents)
     /\ (pending.sessionId = NoSession /\ pending'.sessionId # NoSession) =>
          /\ pending'.confusionEvents = pending.confusionEvents
          /\ pending'.drugMentions = pending.drugMentions
          /\ pending'.prescriptions = pending.prescriptions
     /\ (finalized' # finalized /\ opened.active) =>
          /\ IsPrefix(BeforeStart(pending.confusionEvents, opened.confusionMark),
                      lastSnapshot'.visitData.confusionEvents)
          /\ IsPrefix(BeforeStart(pending.drugMentions, opened.mentionMark),
                      lastSnapshot'.visitData.drugMentions)
          /\ IsPrefix(BeforeStart(pending.prescriptions, opened.prescriptionMark),
                      lastSnapshot'.visitData.prescriptions)
     /\ pending.sessionId = NoSession =>
          /\ finalized' = finalized
          /\ lastSnapshot' # lastSnapshot =>
               lastSnapshot'.visitData = NoSnapshot /\ pending' = pending]_vars


DrugsOf(log) == [i \in DOMAIN log |-> log[i].drug]

C28_SnapshotAligned ==
  (lastSnapshot.called /\ lastSnapshot.visitData # NoSnapshot) =>
    DrugsOf(lastSnapshot.visitData.drugMentions)
      = DrugsOf(lastSnapshot.visitData.prescriptions)

C28_OneOfEach ==
  mentionLog' # mentionLog =>
    LET drug == mentionLog'[Len(mentionLog')].drug
    IN /\ Len(mentionLog') = Len(mentionLog) + 1
       /\ DrugsOf(pending'.drugMentions) = Append(DrugsOf(pending.drugMentions), drug)
       /\ DrugsOf(pending'.prescriptions) = Append(DrugsOf(pending.prescriptions), drug)

C29_CheckingIndicator ==
  /\ (\E c \in drugChecks : c.at = "fetch") => isChecking
  /\ (drugChecks = {} /\ result.shown) => result.detection = Len(mentionLog)


C30_OneInFlight ==
  /\ Cardinality(analyses) <= 1
  /\ isAnalyzingRef <=> analyses # {}

C30_TickBehindGuard ==
  TicksSoFar' # TicksSoFar =>
    IF analyses # {}
      THEN /\ analyses' = analyses
           /\ pending' = pending
           /\ nextConfusion' = nextConfusion
      ELSE /\ Cardinality(analyses') = 1
           /\ pending' = pending

\* C30: the comprehension monitor has at most one analysis request in flight.
\* A tick that fires while a request is pending starts no request and appends
\* no confusion event; the flag is set exactly while a request is pending, so
\* after a success and after a failure the next tick starts a request again.
C30_SingleAnalysis ==
  /\ []C30_OneInFlight
  /\ [][C30_TickBehindGuard]_vars

\* C30 witness: a tick was skipped behind a pending request, one request was
\* logged and one failed, and a later tick has a request in flight again
C30_Witness ==
  /\ \E i \in DOMAIN monitorLog : monitorLog[i] = "skipped"
  /\ \E i \in DOMAIN monitorLog : monitorLog[i] = "logged"
  /\ \E i \in DOMAIN monitorLog : monitorLog[i] = "failed"
  /\ monitorLog[Len(monitorLog)] = "started"
  /\ Cardinality(analyses) = 1
  /\ Len(pending.confusionEvents) = 1

Next == StoreNext
Spec == Init /\ [][Next]_vars
====
